---- MODULE Spec2Model ----
(***************************************************************************)
(* Model of the countdown engine of qtshut (src/core/countdown.rs):        *)
(* CountdownManager, its control calls and the tick task that every        *)
(* successful start spawns.  Time is a global clock `now` counted in       *)
(* units of 1/Second of a second.                                          *)
(***************************************************************************)
EXTENDS Integers, Sequences, FiniteSets, TLC

(* ---------------- bounds of the model ---------------- *)
Second == 2          \* clock units per second (resolution of the model clock)
MaxTime == 4         \* the clock stops advancing here
MaxRuns == 2         \* successful start() calls explored
Day == 4             \* units per calendar day (scaled)
EventWindow == 1     \* how many of the latest published updates are remembered

Runs == 1..MaxRuns
Callers == {1, 2}
NoTime == -1
NoRun == 0

VARIABLES
    now,              \* wall clock (Local::now / Instant::now)
    status,           \* CountdownManager.status
    current_task,     \* CountdownManager.current_task
    cancel_sender,    \* CountdownManager.cancel_sender: NoRun or the run whose channel it feeds
    is_paused,        \* CountdownManager.is_paused
    start_timestamp,  \* CountdownManager.start_timestamp
    paused_duration,  \* CountdownManager.paused_duration
    pause_permit,     \* stored permit of CountdownManager.pause_notify
    pause_waiters,    \* tick tasks enqueued on pause_notify, oldest first
    nRuns,            \* tick tasks spawned so far
    task,             \* the spawned tick tasks: locals and position
    call,             \* the control call each client is executing
    clients,          \* the clients that issue control calls
    events,           \* the latest updates sent on update_sender
    pub,              \* per run: how many updates of each kind its tick task sent
    hist,             \* history of the pause()/resume() calls of the current run
    countdown_receiver, \* the UI's receiver of update_sender: unread updates, latest batch
    task_file,        \* TaskPersistence: the content of the task file
    app,              \* App: its position (startup recovery, event loop), the record it loaded
    query,            \* a call of a function of TimeParser or TaskPersistence: its input
    answer            \* what that call returned

vars == <<now, status, current_task, cancel_sender, is_paused, start_timestamp,
          paused_duration, pause_permit, pause_waiters, nRuns, task, call,
          clients, events, pub, hist, countdown_receiver, task_file, app, query,
          answer>>

(* what no step of the countdown engine touches *)
appVars == <<task_file, app, query, answer>>

(* ---------------- data ---------------- *)
NoTask ==
    [task_type |-> "None", target_time |-> NoTime, daily_time |-> NoTime,
     enabled |-> TRUE, created_at |-> 0]

OnceTask(t) == [NoTask EXCEPT !.task_type = "Once", !.target_time = t]

DailyTask(d) == [NoTask EXCEPT !.task_type = "Daily", !.daily_time = d]

Idle == [kind |-> "Idle", remaining |-> 0, msg |-> ""]

Running(remaining) == [kind |-> "Running", remaining |-> remaining, msg |-> ""]

Finished == [kind |-> "Finished", remaining |-> 0, msg |-> ""]

Cancelled == [kind |-> "Cancelled", remaining |-> 0, msg |-> ""]

Error(m) == [kind |-> "Error", remaining |-> 0, msg |-> m]

Messages == {"shutdown failed"}

Update(kind, run) ==
    [kind |-> kind, run |-> run, remaining |-> 0, progress |-> 0,
     task_info |-> NoTask, msg |-> ""]

NoCounts == [finished |-> 0, task_completed |-> 0, cancelled |-> 0]

(* a tick task: its position pc ("none" before it is spawned, "check" at the top
   of its loop, "tick_wait" in interval.tick(), "pause_wait" in notified(),
   "notified" once woken, "done" after its return), its locals target_time,
   cancel_rx (rx: a signal is queued), pause_start and the next deadline of its
   interval (NoTime until its first poll creates it); task_arg is the descriptor
   its start was called with, signalled whether a cancel signal was ever queued *)
NotSpawned ==
    [pc |-> "none", target_time |-> 0, rx |-> FALSE, pause_start |-> NoTime,
     next_tick |-> NoTime, task_arg |-> NoTask, signalled |-> FALSE]

(* a task after its `return`: its locals are dropped *)
Ended(t) ==
    [NotSpawned EXCEPT !.pc = "done", !.task_arg = t.task_arg,
                       !.signalled = t.signalled]

(* the interval is created by the poll that first reaches the loop *)
IntervalOf(t) == IF t.next_tick = NoTime THEN now ELSE t.next_tick

(* a client between two control calls; ret is how its latest call returned:
   "err", "cancel1"/"cancel2" (a first/a repeated cancel in succession) or
   "ok" (any other call, and before the first call) *)
IdleCall(ret) ==
    [op |-> "none", pc |-> "idle", ret |-> ret, target |-> 0, now0 |-> 0,
     task_arg |-> NoTask]

NoPause == [pause_at |-> NoTime, span |-> 0]

(* the text written with whole seconds only *)
TimeToJsonWholeSeconds(t) ==
    IF t = NoTime
    THEN [null |-> TRUE, sec |-> 0, frac |-> 0]
    ELSE [null |-> FALSE, sec |-> t \div Second, frac |-> 0]

(* serde_json text of an Option<DateTime<Local>> or Option<NaiveTime>: null, or
   the RFC 3339 text with its whole seconds and its fraction of a second *)
TimeToJson(t) ==
    IF t = NoTime
    THEN [null |-> TRUE, sec |-> 0, frac |-> 0]
    ELSE [null |-> FALSE, sec |-> t \div Second, frac |-> t % Second]

TimeFromJson(j) == IF j.null THEN NoTime ELSE j.sec * Second + j.frac

(* serde_json::to_string_pretty(task_data) *)
to_string_pretty(task_data) ==
    [task_type |-> task_data.task_type,
     target_time |-> TimeToJson(task_data.target_time),
     daily_time |-> TimeToJson(task_data.daily_time),
     enabled |-> task_data.enabled,
     created_at |-> TimeToJson(task_data.created_at)]

(* serde_json::from_str::<TaskData>(json_data) *)
from_str(json_data) ==
    [task_type |-> json_data.task_type,
     target_time |-> TimeFromJson(json_data.target_time),
     daily_time |-> TimeFromJson(json_data.daily_time),
     enabled |-> json_data.enabled,
     created_at |-> TimeFromJson(json_data.created_at)]

(* the task file does not exist *)
NoFile == [kind |-> "absent", json |-> to_string_pretty(NoTask)]

(* the task file holds only white space *)
EmptyFile == [kind |-> "empty", json |-> to_string_pretty(NoTask)]

(* the task file holds text that is not a TaskData *)
CorruptFile == [kind |-> "corrupt", json |-> to_string_pretty(NoTask)]

(* the task file after save_task(task_data) *)
SavedFile(task_data) == [kind |-> "json", json |-> to_string_pretty(task_data)]

(* load_task(): Ok(None) without a file or with an empty one, Err for text that
   does not parse (the file is copied to a backup and left in place), else
   Ok(Some(task)); backup tells whether the call made the backup copy *)
load_task(file) ==
    IF file.kind = "json"
    THEN [ok |-> TRUE, some |-> TRUE, task |-> from_str(file.json), backup |-> FALSE]
    ELSE [ok |-> file.kind # "corrupt", some |-> FALSE, task |-> NoTask,
          backup |-> file.kind = "corrupt"]

(* load_task_async(): the same results, and no backup copy in any case *)
load_task_async(file) == [load_task(file) EXCEPT !.backup = FALSE]

(* a CountdownManager used on its own, without an App around it *)
NoApp == [pc |-> "none", loaded |-> NoTask]

NoQuery == [fn |-> "none"]

NoAnswer == [ok |-> FALSE, value |-> 0]

(* no receiver was ever taken from update_sender *)
NoSubscriber == [subscribed |-> FALSE, lag |-> 0, got |-> <<>>]

(* get_update_receiver(): a receiver that has read everything sent so far *)
Subscriber == [subscribed |-> TRUE, lag |-> 0, got |-> <<>>]

Min(a, b) == IF a < b THEN a ELSE b

(* a sender that waits for room while a receiver is a full buffer behind *)
SendWaitsWhenFull(receiver) == receiver.subscribed /\ receiver.lag >= EventWindow

(* broadcast::Sender::send returns at once, whatever the receivers have read *)
SendWaits(receiver) == FALSE

(* the receiver after n more updates were sent: its count of unread updates
   grows, counted up to one more than the buffer holds *)
Published(receiver, n) ==
    IF receiver.subscribed
    THEN [receiver EXCEPT !.lag = Min(@ + n, EventWindow + 1)]
    ELSE receiver

(* update_sender.send(update): the window keeps the latest updates *)
Send(log, update) ==
    LET all == Append(log, update)
    IN  IF Len(all) > EventWindow
        THEN SubSeq(all, Len(all) - EventWindow + 1, Len(all))
        ELSE all

(* chrono Duration::num_seconds: whole seconds, truncated toward zero *)
NumSeconds(d) ==
    IF d >= 0 THEN d \div Second ELSE -((-d) \div Second)

Clamp(x, lo, hi) == IF x < lo THEN lo ELSE IF x > hi THEN hi ELSE x

(* calculate_progress: percent of elapsed whole seconds in total whole seconds *)
calculate_progress(start_time, target_time, current_time) ==
    LET total_duration == target_time - start_time
        elapsed_duration == current_time - start_time
    IN  IF NumSeconds(total_duration) <= 0
        THEN 100
        ELSE Clamp((NumSeconds(elapsed_duration) * 100) \div NumSeconds(total_duration),
                   0, 100)

Init ==
    /\ now = 1
    /\ status = Idle
    /\ current_task = NoTask
    /\ cancel_sender = NoRun
    /\ is_paused = FALSE
    /\ start_timestamp = 0
    /\ paused_duration = 0
    /\ pause_permit = FALSE
    /\ pause_waiters = <<>>
    /\ nRuns = 0
    /\ task = [r \in Runs |-> NotSpawned]
    /\ call = [c \in Callers |-> IdleCall("ok")]
    /\ clients = {1}
    /\ events = <<>>
    /\ pub = [r \in Runs |-> NoCounts]
    /\ hist = NoPause
    /\ countdown_receiver = NoSubscriber
    /\ task_file = NoFile
    /\ app = NoApp
    /\ query = NoQuery
    /\ answer = NoAnswer

(* ---------------- the clock ---------------- *)
(* time passes while every client is between calls and every tick task waits:
   a started call and a woken task run before the clock moves on *)
Advance ==
    /\ now < MaxTime
    /\ \A c \in clients : call[c].pc = "idle"
    /\ \A r \in Runs :
          /\ task[r].pc \notin {"check", "notified"}
          /\ task[r].pc = "tick_wait" => now < task[r].next_tick
    /\ now' = now + 1
    /\ UNCHANGED <<status, current_task, cancel_sender, is_paused, start_timestamp,
                   paused_duration, pause_permit, pause_waiters, nRuns, task, call,
                   clients, appVars, events, pub, hist, countdown_receiver>>

(* ---------------- control calls ---------------- *)
CanCall(c) == c \in clients /\ call[c].pc = "idle"

(* the check with `<` in place of `<=` *)
TargetInvalidStrict(target_time, n) == target_time < n

(* start_countdown_internal: `if target_time <= now { return Err }` *)
TargetInvalid(target_time, n) == target_time <= n

(* cancel_sender.send(()): queued only while the receiver still exists *)
SendCancel(tasks, sender) ==
    IF sender # NoRun /\ tasks[sender].pc # "done"
    THEN [tasks EXCEPT ![sender].rx = TRUE, ![sender].signalled = TRUE]
    ELSE tasks

(* the status cancel_countdown leaves behind *)
StatusAfterCancel == Cancelled

(* the body of cancel_countdown(): signal through the stored handle, clear the
   handle, set the status *)
DoCancel ==
    /\ task' = SendCancel(task, cancel_sender)
    /\ cancel_sender' = NoRun
    /\ status' = StatusAfterCancel

(* pause_notify.notify_one(): wake the oldest waiter, else store one permit *)
NotifyOne ==
    IF pause_waiters # <<>>
    THEN /\ task' = [task EXCEPT ![Head(pause_waiters)].pc = "notified"]
         /\ pause_waiters' = Tail(pause_waiters)
         /\ UNCHANGED pause_permit
    ELSE /\ pause_permit' = TRUE
         /\ UNCHANGED <<task, pause_waiters>>

(* start_countdown_internal up to the end of its cancel_countdown() call,
   entered with the descriptor `arg` (NoTask for start_countdown) *)
StartInternal(c, target_time, arg) ==
    IF TargetInvalid(target_time, now)
    THEN /\ call' = [call EXCEPT ![c] = IdleCall("err")]
         /\ UNCHANGED <<task, cancel_sender, status>>
    ELSE /\ nRuns < MaxRuns
         /\ call' = [call EXCEPT ![c] =
                        [op |-> "start", pc |-> "start_spawn", ret |-> "pending",
                         target |-> target_time, now0 |-> now, task_arg |-> arg]]
         /\ DoCancel

(* start_countdown(target_time) *)
StartCountdown(c, target_time) ==
    /\ CanCall(c)
    /\ StartInternal(c, target_time, NoTask)
    /\ UNCHANGED <<now, current_task, is_paused, start_timestamp, paused_duration,
                   pause_permit, pause_waiters, nRuns, clients, appVars, events, pub, hist,
                   countdown_receiver>>

(* the day's occurrence of a time-of-day, rolled to tomorrow once it is past *)
DailyTarget(daily_time, n) ==
    LET today == n - (n % Day)
        target_datetime == today + daily_time
    IN  IF n > target_datetime THEN today + Day + daily_time ELSE target_datetime

(* start_countdown_from_task(task) *)
StartFromTask(c, t) ==
    /\ CanCall(c)
    /\ IF \/ t.task_type = "Once" /\ t.target_time = NoTime
          \/ t.task_type = "Daily" /\ t.daily_time = NoTime
       THEN /\ call' = [call EXCEPT ![c] = IdleCall("err")]
            /\ UNCHANGED <<current_task, task, cancel_sender, status>>
       ELSE /\ current_task' = t
            /\ StartInternal(c, IF t.task_type = "Once"
                                THEN t.target_time
                                ELSE DailyTarget(t.daily_time, now), t)
    /\ UNCHANGED <<now, is_paused, start_timestamp, paused_duration, pause_permit,
                   pause_waiters, nRuns, clients, appVars, events, pub, hist,
                   countdown_receiver>>

(* a receiver that takes over what is still queued for the latest run *)
RecycledChannel(tasks, n) == n # NoRun /\ tasks[n].rx

(* mpsc::unbounded_channel(): the receiver of a new channel has nothing queued,
   whatever was sent to the tick tasks of the n runs before it *)
unbounded_channel(tasks, n) == FALSE

(* start_countdown_internal after cancel_countdown(): reset the run state,
   install the new cancel handle, spawn the tick task *)
StartSpawn(c) ==
    /\ c \in clients
    /\ call[c].pc = "start_spawn"
    /\ nRuns < MaxRuns
    /\ is_paused' = FALSE
    /\ start_timestamp' = call[c].now0
    /\ paused_duration' = 0
    /\ hist' = NoPause
    /\ nRuns' = nRuns + 1
    /\ cancel_sender' = nRuns + 1
    /\ task' = [task EXCEPT ![nRuns + 1] =
                   [NotSpawned EXCEPT !.pc = "check",
                                      !.rx = unbounded_channel(task, nRuns),
                                      !.target_time = call[c].target,
                                      !.task_arg = call[c].task_arg]]
    /\ call' = [call EXCEPT ![c] = IdleCall("ok")]
    /\ UNCHANGED <<now, status, current_task, pause_permit, pause_waiters, clients, appVars,
                   events, pub, countdown_receiver>>

(* cancel_countdown() *)
CancelCountdown(c) ==
    /\ CanCall(c)
    /\ DoCancel
    /\ call' = [call EXCEPT ![c] =
                   IdleCall(IF call[c].ret \in {"cancel1", "cancel2"}
                            THEN "cancel2" ELSE "cancel1")]
    /\ UNCHANGED <<now, current_task, is_paused, start_timestamp, paused_duration,
                   pause_permit, pause_waiters, nRuns, clients, appVars, events, pub, hist,
                   countdown_receiver>>

(* reset(): cancel_countdown(), then `*self.status.write().await = Idle` *)
Reset(c) ==
    /\ CanCall(c)
    /\ task' = SendCancel(task, cancel_sender)
    /\ cancel_sender' = NoRun
    /\ status' = Idle
    /\ call' = [call EXCEPT ![c] = IdleCall("ok")]
    /\ UNCHANGED <<now, current_task, is_paused, start_timestamp, paused_duration,
                   pause_permit, pause_waiters, nRuns, clients, appVars, events, pub, hist,
                   countdown_receiver>>

(* is_active() *)
is_active == status.kind = "Running"

(* pause_countdown() *)
PauseCountdown(c) ==
    /\ CanCall(c)
    /\ call' = [call EXCEPT ![c] = IdleCall("ok")]
    /\ IF is_active /\ ~is_paused
       THEN /\ ~SendWaits(countdown_receiver)
            /\ is_paused' = TRUE
            /\ events' = Send(events, Update("Paused", NoRun))
            /\ countdown_receiver' = Published(countdown_receiver, 1)
            /\ hist' = [hist EXCEPT !.pause_at = now]
       ELSE UNCHANGED <<is_paused, events, hist, countdown_receiver>>
    /\ UNCHANGED <<now, status, current_task, cancel_sender, start_timestamp,
                   paused_duration, pause_permit, pause_waiters, nRuns, task,
                   clients, appVars, pub>>

(* resume_countdown() *)
ResumeCountdown(c) ==
    /\ CanCall(c)
    /\ call' = [call EXCEPT ![c] = IdleCall("ok")]
    /\ IF is_active /\ is_paused
       THEN /\ ~SendWaits(countdown_receiver)
            /\ is_paused' = FALSE
            /\ NotifyOne
            /\ events' = Send(events, Update("Resumed", NoRun))
            /\ countdown_receiver' = Published(countdown_receiver, 1)
            /\ hist' = [pause_at |-> NoTime,
                        span |-> hist.span + (now - hist.pause_at)]
       ELSE UNCHANGED <<is_paused, events, task, pause_permit, pause_waiters, hist,
                        countdown_receiver>>
    /\ UNCHANGED <<now, status, current_task, cancel_sender, start_timestamp,
                   paused_duration, nRuns, clients, appVars, pub>>

(* set_error(error_msg) *)
SetError(c, m) ==
    /\ CanCall(c)
    /\ call' = [call EXCEPT ![c] = IdleCall("ok")]
    /\ ~SendWaits(countdown_receiver)
    /\ status' = Error(m)
    /\ events' = Send(events, [Update("Error", NoRun) EXCEPT !.msg = m])
    /\ countdown_receiver' = Published(countdown_receiver, 1)
    /\ UNCHANGED <<now, current_task, cancel_sender, is_paused, start_timestamp,
                   paused_duration, pause_permit, pause_waiters, nRuns, task,
                   clients, appVars, pub, hist>>

(* ---------------- the tick task of run r ---------------- *)
(* top of the loop: `cancel_rx.try_recv().is_ok()` *)
TaskCancelled(r) ==
    /\ task[r].pc = "check"
    /\ task[r].rx
    /\ ~SendWaits(countdown_receiver)
    /\ status' = Cancelled
    /\ events' = Send(events, Update("Cancelled", r))
    /\ countdown_receiver' = Published(countdown_receiver, 1)
    /\ pub' = [pub EXCEPT ![r].cancelled = @ + 1]
    /\ task' = [task EXCEPT ![r] = Ended(task[r])]
    /\ UNCHANGED <<now, current_task, cancel_sender, is_paused, start_timestamp,
                   paused_duration, pause_permit, pause_waiters, nRuns, call,
                   clients, appVars, hist>>

(* `is_paused` is set: note the pause start, then pause_notify.notified().await,
   which returns at once when a permit is stored *)
TaskPaused(r) ==
    /\ task[r].pc = "check"
    /\ ~task[r].rx
    /\ is_paused
    /\ LET start == IF task[r].pause_start = NoTime THEN now ELSE task[r].pause_start
       IN  IF pause_permit
           THEN /\ pause_permit' = FALSE
                /\ task' = [task EXCEPT ![r].pc = "notified",
                                        ![r].pause_start = start,
                                        ![r].next_tick = IntervalOf(task[r])]
                /\ UNCHANGED pause_waiters
           ELSE /\ pause_waiters' = Append(pause_waiters, r)
                /\ task' = [task EXCEPT ![r].pc = "pause_wait",
                                        ![r].pause_start = start,
                                        ![r].next_tick = IntervalOf(task[r])]
                /\ UNCHANGED pause_permit
    /\ UNCHANGED <<now, status, current_task, cancel_sender, is_paused,
                   start_timestamp, paused_duration, nRuns, call, clients, appVars, events,
                   pub, hist, countdown_receiver>>

(* after notified(): add the measured pause span to the accumulator, `continue` *)
TaskResumed(r) ==
    /\ task[r].pc = "notified"
    /\ paused_duration' = paused_duration + (now - task[r].pause_start)
    /\ task' = [task EXCEPT ![r].pc = "check", ![r].pause_start = NoTime]
    /\ UNCHANGED <<now, status, current_task, cancel_sender, is_paused,
                   start_timestamp, pause_permit, pause_waiters, nRuns, call,
                   clients, appVars, events, pub, hist, countdown_receiver>>

(* neither cancelled nor paused: go on to `interval.tick().await` *)
TaskWaitTick(r) ==
    /\ task[r].pc = "check"
    /\ ~task[r].rx
    /\ ~is_paused
    /\ task' = [task EXCEPT ![r].pc = "tick_wait",
                            ![r].next_tick = IntervalOf(task[r])]
    /\ UNCHANGED <<now, status, current_task, cancel_sender, is_paused,
                   start_timestamp, paused_duration, pause_permit, pause_waiters,
                   nRuns, call, clients, appVars, events, pub, hist, countdown_receiver>>

(* `adjusted_target - now` at a tick *)
Remaining(r) == (task[r].target_time + paused_duration) - now

(* `remaining.num_seconds() <= 0` *)
DeadlineReached(remaining) == NumSeconds(remaining) <= 0

(* the task going round its loop again after the Finished notifications *)
AfterFinishedLoops(t) == [t EXCEPT !.pc = "check"]

(* the `return` that ends the task after the Finished notifications *)
AfterFinished(t) == Ended(t)

(* a tick at which the countdown ends *)
TaskFinish(r) ==
    /\ task[r].pc = "tick_wait"
    /\ now >= task[r].next_tick
    /\ DeadlineReached(Remaining(r))
    /\ ~SendWaits(countdown_receiver)
    /\ status' = Finished
    /\ events' =
          LET fin == Send(events, Update("Finished", r))
          IN  IF current_task # NoTask
              THEN Send(fin, [Update("TaskCompleted", r) EXCEPT !.task_info = current_task])
              ELSE fin
    /\ countdown_receiver' =
          Published(countdown_receiver, IF current_task # NoTask THEN 2 ELSE 1)
    /\ pub' = [pub EXCEPT ![r].finished = @ + 1,
                          ![r].task_completed =
                              IF current_task # NoTask THEN @ + 1 ELSE @]
    /\ task' = [task EXCEPT ![r] =
                   AfterFinished([task[r] EXCEPT !.next_tick = @ + Second])]
    /\ UNCHANGED <<now, current_task, cancel_sender, is_paused, start_timestamp,
                   paused_duration, pause_permit, pause_waiters, nRuns, call,
                   clients, appVars, hist>>

(* a tick with time left: Running{remaining} and a Progress update *)
TaskProgress(r) ==
    /\ task[r].pc = "tick_wait"
    /\ now >= task[r].next_tick
    /\ ~DeadlineReached(Remaining(r))
    /\ ~SendWaits(countdown_receiver)
    /\ countdown_receiver' = Published(countdown_receiver, 1)
    /\ LET remaining == Remaining(r)
           adjusted_target == task[r].target_time + paused_duration
           start_time == now - (adjusted_target - task[r].target_time)
           progress == calculate_progress(start_time, adjusted_target, now)
       IN  /\ status' = Running(remaining)
           /\ events' = Send(events, [Update("Progress", r) EXCEPT
                                         !.remaining = remaining,
                                         !.progress = progress])
    /\ UNCHANGED pub
    /\ task' = [task EXCEPT ![r].pc = "check", ![r].next_tick = @ + Second]
    /\ UNCHANGED <<now, current_task, cancel_sender, is_paused, start_timestamp,
                   paused_duration, pause_permit, pause_waiters, nRuns, call,
                   clients, appVars, hist>>

(* ---------------- inputs ---------------- *)
StartTargets == {Second + 1, 2 * Second + 1}

TaskInputs ==
    {OnceTask(NoTime), OnceTask(2 * Second)}

Next ==
    \/ Advance
    \/ \E c \in Callers, t \in StartTargets : StartCountdown(c, t)
    \/ \E c \in Callers, t \in TaskInputs : StartFromTask(c, t)
    \/ \E c \in Callers : CancelCountdown(c)
    \/ \E c \in Callers : Reset(c)
    \/ \E c \in Callers : StartSpawn(c)
    \/ \E c \in Callers : PauseCountdown(c)
    \/ \E c \in Callers : ResumeCountdown(c)
    \/ \E c \in Callers, m \in Messages : SetError(c, m)
    \/ \E r \in Runs : TaskCancelled(r)
    \/ \E r \in Runs : TaskPaused(r)
    \/ \E r \in Runs : TaskResumed(r)
    \/ \E r \in Runs : TaskWaitTick(r)
    \/ \E r \in Runs : TaskFinish(r)
    \/ \E r \in Runs : TaskProgress(r)

Spec == Init /\ [][Next]_vars

(* ---------------- properties ---------------- *)
Live(r) == task[r].pc \notin {"none", "done"}

NoCallInFlight == \A c \in clients : call[c].pc = "idle"

(* the step is one of the tick task of run r *)
TaskStepOf(r) ==
    /\ task[r].pc \in {"check", "tick_wait", "notified"}
    /\ task'[r].pc # task[r].pc

(* the step is a client entering start() with an accepted target *)
StartBegins == \E c \in clients : call[c].pc = "idle" /\ call'[c].pc = "start_spawn"

(* C1: at most one tick task is live at any moment: when start() spawns the
   tick task of a new run, the previous run's tick task has terminated. *)
C1_SingleLiveTickTask == Cardinality({r \in Runs : Live(r)}) <= 1

(* C2: once cancel() has returned for a run, or a later start() has superseded
   it, that run's tick task publishes neither Finished nor TaskCompleted and
   does not set the status to Finished. *)
C2_NoFinishAfterCancel ==
    [][\A r \in Runs :
          (task[r].signalled /\ NoCallInFlight) =>
              /\ pub'[r].finished = pub[r].finished
              /\ pub'[r].task_completed = pub[r].task_completed
              /\ (TaskStepOf(r) /\ status'.kind = "Finished") => status.kind = "Finished"]_vars

(* C3: a tick task that is blocked in its pause wait when the cancel signal is
   queued can take its cancellation step without any resume(). *)
C3_CancelReachesPausedTask ==
    \A r \in Runs :
        (task[r].pc = "pause_wait" /\ task[r].rx) => ENABLED TaskCancelled(r)

(* C4: a run that is never cancelled publishes Finished exactly once, at a tick
   at which its deadline is reached in whole seconds, followed by exactly one
   TaskCompleted if a descriptor was supplied; its tick task then exits and
   publishes nothing more. *)
C4_Counts ==
    \A r \in Runs :
        ~task[r].signalled =>
            /\ pub[r].cancelled = 0
            /\ pub[r].finished = (IF task[r].pc = "done" THEN 1 ELSE 0)
            /\ pub[r].task_completed <= pub[r].finished
            /\ (task[r].pc = "done" /\ task[r].task_arg # NoTask) =>
                   pub[r].task_completed = 1

C4_Step ==
    \A r \in Runs :
        ~task[r].signalled =>
            /\ task[r].pc = "done" =>
                   /\ pub'[r] = pub[r]
                   /\ task'[r].pc = "done"
                   /\ events' = events \/ events'[Len(events')].run # r
            /\ pub'[r].finished # pub[r].finished =>
                   /\ task[r].target_time + paused_duration - now < Second
                   /\ task'[r].pc = "done"
                   /\ LET n == Len(events')
                      IN  IF pub'[r].task_completed # pub[r].task_completed
                          THEN /\ events'[n].kind = "TaskCompleted"
                               /\ events'[n].run = r
                               /\ n > 1 => /\ events'[n - 1].kind = "Finished"
                                           /\ events'[n - 1].run = r
                          ELSE /\ events'[n].kind = "Finished"
                               /\ events'[n].run = r

C5_Accepted ==
    \A c \in clients : call[c].pc # "idle" => call[c].target > call[c].now0

C5_Rejected ==
    \A c \in clients :
        (call[c].pc = "idle" /\ call'[c] # call[c] /\ call'[c].ret = "err") =>
            UNCHANGED <<status, task, nRuns, cancel_sender, is_paused,
                        start_timestamp, paused_duration, pause_permit,
                        pause_waiters, events, pub>>

C5_InvalidTargetRejected == [](C5_Accepted) /\ [][C5_Rejected]_vars

C5_Witness ==
    /\ \E c \in clients : call[c].pc = "idle" /\ call[c].ret = "err"
    /\ \E r \in Runs : Live(r) /\ cancel_sender = r /\ r = nRuns
    /\ status.kind = "Running"
    /\ start_timestamp > 0

(* C6: after cancel() was called twice in succession on a running countdown
   the run publishes Cancelled exactly once and the status is Cancelled. *)
C6_CancelTwice ==
    \A c \in clients :
        (/\ call[c].pc = "idle"
         /\ call[c].ret = "cancel2"
         /\ nRuns >= 1
         /\ task[nRuns].signalled) =>
            /\ pub[nRuns].cancelled <= 1
            /\ task[nRuns].pc = "done" =>
                   /\ pub[nRuns].cancelled = 1
                   /\ status.kind = "Cancelled"

(* C7: once the tick task of the current run is past a pause, the deadline
   shift (the pause accumulator) equals the time between the pause() calls and
   the resume() calls of this run. *)
C7_PauseShiftExact ==
    (/\ nRuns >= 1
     /\ NoCallInFlight
     /\ cancel_sender = nRuns
     /\ task[nRuns].pc \in {"check", "tick_wait"}
     /\ task[nRuns].pause_start = NoTime
     /\ ~is_paused) =>
        paused_duration = hist.span

(* C8: the status leaves Error only by a start() call. *)
C8_ErrorUntilStart ==
    [][(status.kind = "Error" /\ status'.kind # "Error") => StartBegins]_vars

(* C9: after a successful start() has returned, and until the run finishes or
   cancel() is called, the status is Running. *)
C9_StartedIsRunning ==
    (/\ nRuns >= 1
     /\ NoCallInFlight
     /\ cancel_sender = nRuns
     /\ Live(nRuns)
     /\ ~task[nRuns].signalled
     /\ status.kind # "Error") =>
        status.kind = "Running"

(* C10: no step of a tick task moves the status away from Idle. *)
C10_IdleAfterReset ==
    [][(status.kind = "Idle" /\ status'.kind # "Idle") =>
          ~ \E r \in Runs : TaskStepOf(r)]_vars

(* ---------------- concurrent control calls ---------------- *)
(* two contexts share the manager and call it concurrently: every control
   method takes `&self` and the manager holds no lock of its own *)
InitRace ==
    /\ now = 1
    /\ status = Idle
    /\ current_task = NoTask
    /\ cancel_sender = NoRun
    /\ is_paused = FALSE
    /\ start_timestamp = 0
    /\ paused_duration = 0
    /\ pause_permit = FALSE
    /\ pause_waiters = <<>>
    /\ nRuns = 0
    /\ task = [r \in Runs |-> NotSpawned]
    /\ call = [c \in Callers |-> IdleCall("ok")]
    /\ clients = Callers
    /\ events = <<>>
    /\ pub = [r \in Runs |-> NoCounts]
    /\ hist = NoPause
    /\ countdown_receiver = NoSubscriber
    /\ task_file = NoFile
    /\ app = NoApp
    /\ query = NoQuery
    /\ answer = NoAnswer

NextRace ==
    \/ Advance
    \/ \E c \in Callers, t \in StartTargets : StartCountdown(c, t)
    \/ \E c \in Callers : StartSpawn(c)
    \/ \E c \in Callers : CancelCountdown(c)
    \/ \E r \in Runs : TaskCancelled(r)
    \/ \E r \in Runs : TaskWaitTick(r)
    \/ \E r \in Runs : TaskFinish(r)
    \/ \E r \in Runs : TaskProgress(r)

SpecRace == InitRace /\ [][NextRace]_vars

(* C11: under concurrent start() and cancel() calls there is never more than
   one tick task that is live and has not been sent a cancel signal. *)
C11_OneUncancelledTask ==
    Cardinality({r \in Runs : Live(r) /\ ~task[r].signalled}) <= 1

(* ---------------- a subscriber of the update channel ---------------- *)
(* the newest n entries of a log, each reduced to its kind and its run *)
Newest(log, n) ==
    [i \in 1..n |-> [kind |-> log[Len(log) - n + i].kind,
                     run |-> log[Len(log) - n + i].run]]

(* Message::CheckCountdownStatus: try_recv() until Empty; after Lagged the
   receiver goes on from the oldest update the channel still holds *)
CheckCountdownStatus ==
    /\ countdown_receiver.subscribed
    /\ countdown_receiver' =
          [countdown_receiver EXCEPT
              !.lag = 0,
              !.got = Newest(events, Min(countdown_receiver.lag, EventWindow))]
    /\ UNCHANGED <<now, status, current_task, cancel_sender, is_paused,
                   start_timestamp, paused_duration, pause_permit, pause_waiters,
                   nRuns, task, call, clients, appVars, events, pub, hist>>

(* the manager with one receiver taken before the first control call *)
InitBus ==
    /\ now = 1
    /\ status = Idle
    /\ current_task = NoTask
    /\ cancel_sender = NoRun
    /\ is_paused = FALSE
    /\ start_timestamp = 0
    /\ paused_duration = 0
    /\ pause_permit = FALSE
    /\ pause_waiters = <<>>
    /\ nRuns = 0
    /\ task = [r \in Runs |-> NotSpawned]
    /\ call = [c \in Callers |-> IdleCall("ok")]
    /\ clients = {1}
    /\ events = <<>>
    /\ pub = [r \in Runs |-> NoCounts]
    /\ hist = NoPause
    /\ countdown_receiver = Subscriber
    /\ task_file = NoFile
    /\ app = NoApp
    /\ query = NoQuery
    /\ answer = NoAnswer

NextBus ==
    \/ Advance
    \/ \E c \in Callers, t \in TaskInputs : StartFromTask(c, t)
    \/ \E c \in Callers : StartSpawn(c)
    \/ \E c \in Callers : CancelCountdown(c)
    \/ \E c \in Callers : PauseCountdown(c)
    \/ \E c \in Callers : ResumeCountdown(c)
    \/ \E r \in Runs : TaskCancelled(r)
    \/ \E r \in Runs : TaskPaused(r)
    \/ \E r \in Runs : TaskResumed(r)
    \/ \E r \in Runs : TaskWaitTick(r)
    \/ \E r \in Runs : TaskFinish(r)
    \/ \E r \in Runs : TaskProgress(r)
    \/ CheckCountdownStatus

SpecBus == InitBus /\ [][NextBus]_vars

(* C12: publishing never blocks the tick task, whatever the subscriber has
   read: a due tick and a queued cancel signal are always taken, an
   uncancelled run never waits a whole second past its deadline, and a poll of
   a subscriber that fell behind delivers the newest updates the channel
   holds, ending with the latest update sent. *)
C12_TaskNeverStalls ==
    \A r \in Runs :
        /\ (task[r].pc = "tick_wait" /\ now >= task[r].next_tick) =>
               (ENABLED TaskFinish(r)) \/ (ENABLED TaskProgress(r))
        /\ (task[r].pc = "check" /\ task[r].rx) => ENABLED TaskCancelled(r)
        /\ (task[r].pc = "tick_wait" /\ ~task[r].signalled) =>
               Remaining(r) > -Second

C12_Delivery ==
    (countdown_receiver'.lag < countdown_receiver.lag) =>
        LET got == countdown_receiver'.got
        IN  /\ countdown_receiver'.lag = 0
            /\ Len(got) = Min(countdown_receiver.lag, EventWindow)
            /\ got[Len(got)].kind = events[Len(events)].kind
            /\ got[Len(got)].run = events[Len(events)].run

engineVars ==
    <<status, cancel_sender, is_paused, start_timestamp, paused_duration,
      pause_permit, pause_waiters, nRuns, task, events, pub, hist,
      countdown_receiver>>

DurationInput(d) == [kind |-> "Duration", value |-> d]

AbsoluteTime(t) == [kind |-> "AbsoluteTime", value |-> t]

DailyTime(d) == [kind |-> "DailyTime", value |-> d]

(* now.date_naive(): the start of the day of instant n *)
Today(n) == n - (n % Day)

(* App::new, `if let Ok(Some(task)) = load_task()` down to the start call:
   a loaded record with a target still ahead goes on to start_countdown, one
   with a target not ahead is cleared, anything else is left as it is *)
AppLoad ==
    /\ app.pc = "new"
    /\ LET loaded == load_task(task_file)
       IN  IF loaded.ok /\ loaded.some
           THEN IF loaded.task.target_time # NoTime
                THEN IF loaded.task.target_time > now
                     THEN /\ app' = [pc |-> "start", loaded |-> loaded.task]
                          /\ UNCHANGED task_file
                     ELSE /\ app' = [pc |-> "run", loaded |-> loaded.task]
                          /\ task_file' = NoFile
                ELSE /\ app' = [pc |-> "run", loaded |-> loaded.task]
                     /\ UNCHANGED task_file
           ELSE /\ app' = [pc |-> "run", loaded |-> NoTask]
                /\ UNCHANGED task_file
    /\ UNCHANGED <<now, current_task, call, clients, query, answer>>
    /\ UNCHANGED engineVars

(* App::new: start_countdown(target_time); the record is cleared if it fails *)
AppStart ==
    /\ app.pc = "start"
    /\ CanCall(1)
    /\ StartInternal(1, app.loaded.target_time, NoTask)
    /\ task_file' = IF TargetInvalid(app.loaded.target_time, now)
                    THEN NoFile ELSE task_file
    /\ app' = [app EXCEPT !.pc = "run"]
    /\ UNCHANGED <<now, current_task, is_paused, start_timestamp, paused_duration,
                   pause_permit, pause_waiters, nRuns, clients, events, pub, hist,
                   countdown_receiver, query, answer>>

(* App::run, UIEvent::StartCountdown: a DailyTime becomes today's instant *)
EventTarget(time_input, n) ==
    CASE time_input.kind = "Duration" -> n + time_input.value
      [] time_input.kind = "AbsoluteTime" -> time_input.value
      [] time_input.kind = "DailyTime" -> Today(n) + time_input.value

(* App::run, UIEvent::StartCountdown(time_input, _): the error of
   start_countdown is only logged *)
HandleStartCountdown(time_input) ==
    /\ app.pc = "run"
    /\ CanCall(1)
    /\ StartInternal(1, EventTarget(time_input, now), NoTask)
    /\ UNCHANGED <<now, current_task, is_paused, start_timestamp, paused_duration,
                   pause_permit, pause_waiters, nRuns, clients, events, pub, hist,
                   countdown_receiver, appVars>>

(* set_shutdown_time / start_countdown_from_input: a DailyTime becomes today's
   instant if that is ahead, else tomorrow's *)
InputTarget(time_input, n) ==
    CASE time_input.kind = "Duration" -> n + time_input.value
      [] time_input.kind = "AbsoluteTime" -> time_input.value
      [] time_input.kind = "DailyTime" ->
            IF Today(n) + time_input.value > n
            THEN Today(n) + time_input.value
            ELSE Today(n) + Day + time_input.value

(* start_countdown_from_input(time_input, task_type): save the record, then
   start_countdown *)
start_countdown_from_input(time_input, task_type) ==
    /\ app.pc = "run"
    /\ CanCall(1)
    /\ LET target_time == InputTarget(time_input, now)
           task_data == [task_type |-> task_type,
                         target_time |-> target_time,
                         daily_time |-> IF time_input.kind = "DailyTime"
                                        THEN time_input.value ELSE NoTime,
                         enabled |-> TRUE,
                         created_at |-> now]
       IN  /\ task_file' = SavedFile(task_data)
           /\ StartInternal(1, target_time, NoTask)
    /\ UNCHANGED <<now, current_task, is_paused, start_timestamp, paused_duration,
                   pause_permit, pause_waiters, nRuns, clients, events, pub, hist,
                   countdown_receiver, app, query, answer>>

(* start_countdown_from_task called on the manager of a running application *)
HandleStartFromTask(t) == app.pc = "run" /\ StartFromTask(1, t)

(* App::run, UIEvent::CancelCountdown: cancel_countdown() on the manager, its
   error only logged; the task file is not touched *)
HandleCancelCountdown == app.pc = "run" /\ CancelCountdown(1)

(* TaskPersistence::clear_task: remove the task file if there is one *)
clear_task(file) == NoFile

(* cancel_shutdown(): cancel_countdown(), then clear_task() *)
cancel_shutdown ==
    /\ app.pc = "run"
    /\ CanCall(1)
    /\ DoCancel
    /\ call' = [call EXCEPT ![1] =
                   IdleCall(IF call[1].ret \in {"cancel1", "cancel2"}
                            THEN "cancel2" ELSE "cancel1")]
    /\ task_file' = clear_task(task_file)
    /\ UNCHANGED <<now, current_task, is_paused, start_timestamp, paused_duration,
                   pause_permit, pause_waiters, nRuns, clients, events, pub, hist,
                   countdown_receiver, app, query, answer>>

(* the times of day the inputs use: early and late in the day *)
TimesOfDay == {1, Day - 1}

StoredTasks ==
    {OnceTask(t) : t \in {NoTime, 1, Second + 1}}
        \cup {[DailyTask(d) EXCEPT !.target_time = t] :
                 d \in TimesOfDay, t \in {NoTime, 1, Day - 1}}

StoredFiles == {NoFile, EmptyFile, CorruptFile} \cup {SavedFile(t) : t \in StoredTasks}

TimeInputs ==
    {DurationInput(Second), AbsoluteTime(1)} \cup {DailyTime(d) : d \in TimesOfDay}

(* the process starts: a fresh manager, whatever the task file holds *)
InitApp ==
    /\ now = 1
    /\ status = Idle
    /\ current_task = NoTask
    /\ cancel_sender = NoRun
    /\ is_paused = FALSE
    /\ start_timestamp = 0
    /\ paused_duration = 0
    /\ pause_permit = FALSE
    /\ pause_waiters = <<>>
    /\ nRuns = 0
    /\ task = [r \in Runs |-> NotSpawned]
    /\ call = [c \in Callers |-> IdleCall("ok")]
    /\ clients = {1}
    /\ events = <<>>
    /\ pub = [r \in Runs |-> NoCounts]
    /\ hist = NoPause
    /\ countdown_receiver = NoSubscriber
    /\ task_file \in StoredFiles
    /\ app = [pc |-> "new", loaded |-> NoTask]
    /\ query = NoQuery
    /\ answer = NoAnswer

NextApp ==
    \/ Advance
    \/ AppLoad
    \/ AppStart
    \/ \E time_input \in TimeInputs : HandleStartCountdown(time_input)
    \/ \E time_input \in TimeInputs, task_type \in {"Once", "Daily"} :
          start_countdown_from_input(time_input, task_type)
    \/ \E d \in TimesOfDay : HandleStartFromTask(DailyTask(d))
    \/ \E c \in Callers : StartSpawn(c)
    \/ \E r \in Runs : TaskCancelled(r)
    \/ \E r \in Runs : TaskWaitTick(r)
    \/ \E r \in Runs : TaskFinish(r)
    \/ \E r \in Runs : TaskProgress(r)

SpecApp == InitApp /\ [][NextApp]_vars

(* the step ends the startup recovery of App::new *)
RecoveryEnds == app.pc \in {"new", "start"} /\ app'.pc = "run"

(* the recovery has called start_countdown and the call went on to spawn *)
RecoveryStarted == call'[1].pc = "start_spawn"

(* C13: when startup recovery ends with a one-shot record loaded, either the
   engine was started for the record's target with the stored descriptor as
   its task, or (target not ahead) the record is cleared and nothing started. *)
C13_RecoverOnce ==
    [][(RecoveryEnds /\ app'.loaded.task_type = "Once"
                     /\ app'.loaded.target_time # NoTime) =>
          IF app'.loaded.target_time > now
          THEN /\ RecoveryStarted
               /\ call'[1].target = app'.loaded.target_time
               /\ current_task' = app'.loaded
          ELSE /\ ~RecoveryStarted
               /\ task_file' = NoFile]_vars

(* the next occurrence of a time of day: today's if it is still ahead,
   otherwise tomorrow's *)
NextOccurrence(time_of_day, n) ==
    IF Today(n) + time_of_day > n
    THEN Today(n) + time_of_day
    ELSE Today(n) + Day + time_of_day

(* C14: when startup recovery ends with a daily record loaded, the engine was
   started for the next occurrence of the record's time of day, whatever the
   stored target instant is, and the record is still stored. *)
C14_RecoverDaily ==
    [][(RecoveryEnds /\ app'.loaded.task_type = "Daily"
                     /\ app'.loaded.daily_time # NoTime) =>
          /\ RecoveryStarted
          /\ call'[1].target = NextOccurrence(app'.loaded.daily_time, now)
          /\ task_file' = task_file
          /\ task_file.kind = "json"]_vars

(* C15: when startup recovery ends without a countdown started, the task file
   holds no record: it is absent or empty. *)
C15_NoStaleRecord ==
    [][(RecoveryEnds /\ ~RecoveryStarted) => task_file'.kind \in {"absent", "empty"}]_vars

(* a start call made for a time of day: the UI event, the input handler or
   start_countdown_from_task *)
DailyStart(d) ==
    \/ HandleStartCountdown(DailyTime(d))
    \/ \E task_type \in {"Once", "Daily"} :
          start_countdown_from_input(DailyTime(d), task_type)
    \/ HandleStartFromTask(DailyTask(d))

(* C16: a start made for a time of day that has already passed today never
   returns the invalid-target error: its target is tomorrow's occurrence. *)
C16_DailyStartNeverFails ==
    [][\A d \in TimesOfDay :
          (DailyStart(d) /\ Today(now) + d < now) =>
              /\ call'[1].pc = "start_spawn"
              /\ call'[1].target = Today(now) + Day + d]_vars

(* ---------------- calls of TaskPersistence and TimeParser ---------------- *)
SaveLoadQuery(t, mode) == [fn |-> "save_load", pc |-> "start", mode |-> mode, task |-> t]

(* a load of whatever the task file holds *)
LoadQuery(mode) == [fn |-> "load", pc |-> "start", mode |-> mode]

ParseQuery(amount, unit) == [fn |-> "parse", pc |-> "start", amount |-> amount, unit |-> unit]

RemainingQuery(time_input) == [fn |-> "remaining", pc |-> "start", input |-> time_input]

(* save_task(task_data): fs::write replaces the file *)
SaveTask ==
    /\ query.fn = "save_load" /\ query.pc = "start" /\ query.mode = "sync"
    /\ task_file' = SavedFile(query.task)
    /\ query' = [query EXCEPT !.pc = "saved"]
    /\ UNCHANGED <<now, current_task, call, clients, app, answer>>
    /\ UNCHANGED engineVars

(* save_task_async(task_data): File::create, write_all, flush *)
SaveTaskAsync ==
    /\ query.fn = "save_load" /\ query.pc = "start" /\ query.mode = "async"
    /\ task_file' = SavedFile(query.task)
    /\ query' = [query EXCEPT !.pc = "saved"]
    /\ UNCHANGED <<now, current_task, call, clients, app, answer>>
    /\ UNCHANGED engineVars

(* load_task() *)
LoadTask ==
    /\ \/ query.fn = "save_load" /\ query.pc = "saved"
       \/ query.fn = "load" /\ query.pc = "start"
    /\ query.mode = "sync"
    /\ answer' = load_task(task_file)
    /\ query' = [query EXCEPT !.pc = "loaded"]
    /\ UNCHANGED <<now, current_task, call, clients, app, task_file>>
    /\ UNCHANGED engineVars

(* load_task_async(): as load_task, without the backup of a corrupt file *)
LoadTaskAsync ==
    /\ \/ query.fn = "save_load" /\ query.pc = "saved"
       \/ query.fn = "load" /\ query.pc = "start"
    /\ query.mode = "async"
    /\ answer' = load_task_async(task_file)
    /\ query' = [query EXCEPT !.pc = "loaded"]
    /\ UNCHANGED <<now, current_task, call, clients, app, task_file>>
    /\ UNCHANGED engineVars

(* the unit spellings: sec/min/hour words, their abbreviations, and the
   Chinese words written in pinyin (miao, miaozhong, fen, fenzhong, shi,
   xiaoshi) *)
SecondSpellings == {"miao", "miaozhong", "s", "sec", "second", "seconds", "S"}

MinuteSpellings == {"fen", "fenzhong", "m", "min", "minute", "minutes", "Min"}

HourSpellings == {"shi", "xiaoshi", "h", "hour", "hours", "H"}

(* group 2 of duration_pattern, lower-cased: the alternatives are tried in
   order, so a Latin spelling is captured as its first letter *)
CapturedUnit(unit) ==
    CASE unit \in {"miao", "miaozhong", "fen", "fenzhong", "shi", "xiaoshi"} -> unit
      [] unit \in {"s", "sec", "second", "seconds", "S"} -> "s"
      [] unit \in {"m", "min", "minute", "minutes", "Min"} -> "m"
      [] unit \in {"h", "hour", "hours", "H"} -> "h"

(* TIME_UNITS with every hour spelling counted as a minute *)
TIME_UNITS_HourAsMinute(unit) ==
    CASE unit \in {"miao", "miaozhong", "s", "sec", "second", "seconds"} -> 1
      [] OTHER -> 60

(* TIME_UNITS: seconds per unit *)
TIME_UNITS(unit) ==
    CASE unit \in {"miao", "miaozhong", "s", "sec", "second", "seconds"} -> 1
      [] unit \in {"fen", "fenzhong", "m", "min", "minute", "minutes"} -> 60
      [] unit \in {"shi", "xiaoshi", "h", "hour", "hours"} -> 3600

SecondsPerDay == 86400

MaxDurationDays == 365

(* chrono Duration::seconds *)
Seconds(n) == n * Second

(* chrono Duration::num_days *)
NumDays(d) == NumSeconds(d) \div SecondsPerDay

(* parse_duration from Duration::seconds(total_seconds) on: rejected when the
   duration is not positive or longer than 365 days *)
checked_duration(total_seconds) ==
    LET duration == Seconds(total_seconds)
    IN  IF NumSeconds(duration) <= 0 \/ NumDays(duration) > MaxDurationDays
        THEN [ok |-> FALSE, input |-> DurationInput(0)]
        ELSE [ok |-> TRUE, input |-> DurationInput(duration)]

(* parse_duration: amount and unit to a Duration, rejected when it is not
   positive or longer than 365 days *)
parse_duration(amount, unit) ==
    checked_duration(amount * TIME_UNITS(CapturedUnit(unit)))

(* parse("<amount><unit>"): the text reaches parse_duration *)
Parse ==
    /\ query.fn = "parse" /\ query.pc = "start"
    /\ answer' = parse_duration(query.amount, query.unit)
    /\ query' = [query EXCEPT !.pc = "parsed"]
    /\ UNCHANGED <<now, current_task, call, clients, app, task_file>>
    /\ UNCHANGED engineVars

Max(a, b) == IF a > b THEN a ELSE b

(* the comparison with `<` in place of `<=` *)
DailyPassedStrict(target_dt, n) == target_dt < n

(* get_remaining_seconds, DailyTime: `if target_dt <= now` *)
DailyPassed(target_dt, n) == target_dt <= n

(* get_remaining_seconds(input) *)
get_remaining_seconds(time_input, n) ==
    CASE time_input.kind = "Duration" -> NumSeconds(time_input.value)
      [] time_input.kind = "AbsoluteTime" -> Max(NumSeconds(time_input.value - n), 0)
      [] time_input.kind = "DailyTime" ->
            LET target_dt == Today(n) + time_input.value
                target == IF DailyPassed(target_dt, n) THEN target_dt + Day ELSE target_dt
            IN  Max(NumSeconds(target - n), 0)

(* get_remaining_seconds on a given TimeInput, or on the one just parsed *)
GetRemainingSeconds ==
    /\ \/ query.fn = "remaining" /\ query.pc = "start"
          /\ answer' = [ok |-> TRUE, input |-> query.input,
                        value |-> get_remaining_seconds(query.input, now)]
       \/ query.fn = "parse" /\ query.pc = "parsed" /\ answer.ok
          /\ answer' = [ok |-> TRUE, input |-> answer.input,
                        value |-> get_remaining_seconds(answer.input, now)]
    /\ query' = [query EXCEPT !.pc = "done"]
    /\ UNCHANGED <<now, current_task, call, clients, app, task_file>>
    /\ UNCHANGED engineVars

MaxAmount == 3

Units == SecondSpellings \cup MinuteSpellings \cup HourSpellings

(* the amounts of a unit of f seconds on both sides of 366 days *)
BorderAmounts(f) ==
    {((MaxDurationDays + 1) * SecondsPerDay) \div f - k : k \in {0, 1}}

(* small amounts of every unit, and for each unit its border amounts *)
ParseQueries ==
    {ParseQuery(amount, unit) : amount \in 1..MaxAmount, unit \in Units}
        \cup {ParseQuery(amount, unit) : amount \in BorderAmounts(1), unit \in SecondSpellings}
        \cup {ParseQuery(amount, unit) : amount \in BorderAmounts(60), unit \in MinuteSpellings}
        \cup {ParseQuery(amount, unit) : amount \in BorderAmounts(3600), unit \in HourSpellings}

SavedTasks ==
    {[task_type |-> ty, target_time |-> t, daily_time |-> d, enabled |-> e,
      created_at |-> c] :
        ty \in {"Once", "Daily"}, t \in {NoTime, Second, Second + 1},
        d \in {NoTime, 0, Day - 1}, e \in BOOLEAN, c \in {0, 1}}

RemainingInputs ==
    {DurationInput(d) : d \in (-Second)..(Second + 1)}
        \cup {AbsoluteTime(t) : t \in 0..MaxTime}
        \cup {DailyTime(d) : d \in 0..(Day - 1)}

Queries ==
    {SaveLoadQuery(t, mode) : t \in SavedTasks, mode \in {"sync", "async"}}
        \cup {LoadQuery(mode) : mode \in {"sync", "async"}}
        \cup ParseQueries
        \cup {RemainingQuery(time_input) : time_input \in RemainingInputs}

InitCalls ==
    /\ now \in 0..MaxTime
    /\ status = Idle
    /\ current_task = NoTask
    /\ cancel_sender = NoRun
    /\ is_paused = FALSE
    /\ start_timestamp = 0
    /\ paused_duration = 0
    /\ pause_permit = FALSE
    /\ pause_waiters = <<>>
    /\ nRuns = 0
    /\ task = [r \in Runs |-> NotSpawned]
    /\ call = [c \in Callers |-> IdleCall("ok")]
    /\ clients = {1}
    /\ events = <<>>
    /\ pub = [r \in Runs |-> NoCounts]
    /\ hist = NoPause
    /\ countdown_receiver = NoSubscriber
    /\ task_file \in {NoFile, CorruptFile, SavedFile(OnceTask(1))}
    /\ app = NoApp
    /\ query \in Queries
    /\ answer = NoAnswer

NextCalls ==
    \/ SaveTask
    \/ SaveTaskAsync
    \/ LoadTask
    \/ LoadTaskAsync
    \/ Parse
    \/ GetRemainingSeconds

SpecCalls == InitCalls /\ [][NextCalls]_vars

(* C17: save(descriptor) followed by load() returns a descriptor equal to the
   saved one in every field, for the synchronous and the asynchronous pair. *)
C17_SaveLoadRoundTrip ==
    (query.fn = "save_load" /\ query.pc = "loaded") =>
        /\ answer.ok
        /\ answer.some
        /\ answer.task.task_type = query.task.task_type
        /\ answer.task.target_time = query.task.target_time
        /\ answer.task.daily_time = query.task.daily_time
        /\ answer.task.enabled = query.task.enabled
        /\ answer.task.created_at = query.task.created_at

C17_Witness ==
    /\ query.fn = "save_load"
    /\ query.pc = "loaded"
    /\ query.mode = "async"
    /\ query.task.task_type = "Daily"
    /\ query.task.target_time # NoTime
    /\ query.task.target_time % Second # 0
    /\ query.task.daily_time = Day - 1
    /\ ~query.task.enabled
    /\ answer.task = query.task

(* seconds per unit of a spelling, by the family of the spelling *)
UnitFactor(unit) ==
    IF unit \in SecondSpellings THEN 1
    ELSE IF unit \in MinuteSpellings THEN 60 ELSE 3600

(* the call parsed "<amount><unit>" to Duration(amount x factor), and
   get_remaining_seconds of that, once computed, is amount x factor *)
ParsedAsProduct ==
    /\ answer.ok
    /\ answer.input = DurationInput(Seconds(query.amount * UnitFactor(query.unit)))
    /\ query.pc = "done" => answer.value = query.amount * UnitFactor(query.unit)

(* C18 as stated: every amount >= 1 with every unit spelling parses to
   Duration(amount x factor), whose remaining seconds are amount x factor. *)
C18_ParseEveryAmount ==
    (query.fn = "parse" /\ query.pc \in {"parsed", "done"}) => ParsedAsProduct

(* C18 amended: the same for every amount >= 1 whose span amount x factor is
   shorter than 366 days. *)
C18_ParseWithinYear ==
    (/\ query.fn = "parse"
     /\ query.pc \in {"parsed", "done"}
     /\ query.amount * UnitFactor(query.unit) < (MaxDurationDays + 1) * SecondsPerDay) =>
        ParsedAsProduct

C18_Witness ==
    /\ query.fn = "parse"
    /\ query.pc = "done"
    /\ query.unit = "hours"
    /\ query.amount = ((MaxDurationDays + 1) * SecondsPerDay) \div 3600 - 1
    /\ answer.value = query.amount * 3600

(* C19: get_remaining_seconds never returns a negative value. *)
C19_RemainingNeverNegative ==
    (query.fn \in {"remaining", "parse"} /\ query.pc = "done") => answer.value >= 0

(* C20: for a DailyTime, get_remaining_seconds is the number of whole seconds
   from now to the next occurrence of the time of day, between 0 and the
   seconds of one day. *)
C20_DailyRemaining ==
    (query.fn = "remaining" /\ query.pc = "done" /\ query.input.kind = "DailyTime") =>
        /\ answer.value = NumSeconds(NextOccurrence(query.input.value, now) - now)
        /\ answer.value >= 0
        /\ answer.value <= NumSeconds(Day)

C20_Witness ==
    /\ query.fn = "remaining"
    /\ query.pc = "done"
    /\ query.input.kind = "DailyTime"
    /\ Today(now) + query.input.value = now
    /\ answer.value = NumSeconds(Day)

(* ---------------- validation and clock texts of TimeParser ---------------- *)
SecondsPerHour == 3600

SecondsPerMinute == 60

MaxValidHours == 24

MinLeadSeconds == 10

MaxFutureDays == 365

(* one calendar day of the wall clock, in clock units *)
CalendarDay == SecondsPerDay * Second

(* chrono Duration::hours, Duration::minutes, Duration::days *)
Hours(h) == h * SecondsPerHour * Second

Minutes(m) == m * SecondsPerMinute * Second

Days(d) == d * CalendarDay

(* chrono Duration::num_hours of a span that is not negative *)
NumHours(d) == NumSeconds(d) \div SecondsPerHour

(* now.date_naive() at the scale of the wall clock: midnight of the day of n *)
DateNaive(n) == n - (n % CalendarDay)

(* validate(time_input), called at instant n *)
validate(time_input, n) ==
    CASE time_input.kind = "Duration" ->
            /\ ~(NumSeconds(time_input.value) <= 0)
            /\ ~(NumSeconds(time_input.value) > MaxValidHours * SecondsPerHour)
      [] time_input.kind = "AbsoluteTime" ->
            /\ ~(time_input.value <= n)
            /\ ~(NumHours(time_input.value - n) > MaxValidHours)
      [] time_input.kind = "DailyTime" -> TRUE

(* validate_time_input(input), called at instant n *)
validate_time_input(time_input, n) ==
    CASE time_input.kind = "Duration" ->
            /\ ~(NumSeconds(time_input.value) <= 0)
            /\ ~(NumDays(time_input.value) > MaxDurationDays)
            /\ ~(NumSeconds(time_input.value) < MinLeadSeconds)
      [] time_input.kind = "AbsoluteTime" ->
            /\ ~(time_input.value <= n)
            /\ ~(time_input.value > n + Days(MaxFutureDays))
            /\ ~(NumSeconds(time_input.value - n) < MinLeadSeconds)
      [] time_input.kind = "DailyTime" -> TRUE

(* the phrases of parse_natural_language that name an instant, written in
   pinyin: the day they fall on (days after today), their hour, and whether an
   hour already passed moves them to the next day *)
IDIOMS ==
    {[phrase |-> "mingtian", days |-> 1, hour |-> 9, roll |-> FALSE],
     [phrase |-> "houtian", days |-> 2, hour |-> 9, roll |-> FALSE],
     [phrase |-> "jinwan", days |-> 0, hour |-> 20, roll |-> TRUE],
     [phrase |-> "mingzao", days |-> 1, hour |-> 7, roll |-> FALSE],
     [phrase |-> "mingtianzaoshang", days |-> 1, hour |-> 7, roll |-> FALSE],
     [phrase |-> "mingtianwanshang", days |-> 1, hour |-> 20, roll |-> FALSE],
     [phrase |-> "zhongwu", days |-> 0, hour |-> 12, roll |-> TRUE],
     [phrase |-> "xiawu", days |-> 0, hour |-> 14, roll |-> TRUE],
     [phrase |-> "wanshang", days |-> 0, hour |-> 20, roll |-> TRUE],
     [phrase |-> "shenye", days |-> 0, hour |-> 23, roll |-> TRUE],
     [phrase |-> "lingchen", days |-> 1, hour |-> 2, roll |-> FALSE]}

(* parse_natural_language(input) for one of these phrases, at instant n *)
parse_natural_language(phrase, n) ==
    LET e == CHOOSE i \in IDIOMS : i.phrase = phrase
        target_dt == DateNaive(n + Days(e.days)) + Hours(e.hour)
    IN  AbsoluteTime(IF e.roll /\ target_dt <= n THEN target_dt + Days(1)
                     ELSE target_dt)

(* the colon of a clock text; every other character of it is a digit 0..9 *)
Colon == -1

IsDigit(c) == c \in 0..9

RECURSIVE DigitsValue(_)
(* str::parse::<u32> of a run of digits *)
DigitsValue(digits) ==
    IF Len(digits) = 0 THEN 0
    ELSE 10 * DigitsValue(SubSeq(digits, 1, Len(digits) - 1)) + digits[Len(digits)]

(* groups 2 and 3 of absolute_pattern and daily_pattern on a text that starts
   with a digit, `(\d{1,2})[:]?(\d{2})?`: the hour takes two digits when there
   are two, a colon is skipped, the minute is the next two digits when there
   are two and is 0 ("unwrap_or") otherwise; what follows is ignored *)
Captures(text) ==
    LET hlen == IF Len(text) >= 2 /\ IsDigit(text[2]) THEN 2 ELSE 1
        colon == Len(text) >= hlen + 1 /\ text[hlen + 1] = Colon
        m0 == IF colon THEN hlen + 2 ELSE hlen + 1
        minute == Len(text) >= m0 + 1 /\ IsDigit(text[m0]) /\ IsDigit(text[m0 + 1])
    IN  [hour |-> DigitsValue(SubSeq(text, 1, hlen)),
         minute |-> IF minute THEN DigitsValue(SubSeq(text, m0, m0 + 1)) ELSE 0]

(* every descriptor anchored at noon *)
TIME_DESCRIPTIONS_Noon(desc) == 12

(* TIME_DESCRIPTIONS, written in pinyin *)
TIME_DESCRIPTIONS(desc) ==
    CASE desc = "zaoshang" -> 8
      [] desc = "shangwu" -> 10
      [] desc = "zhongwu" -> 12
      [] desc = "xiawu" -> 14
      [] desc = "bangwan" -> 18
      [] desc = "wanshang" -> 20
      [] desc = "shenye" -> 23

NoDescription == "none"

(* the adjustment applied to any hour *)
AdjustedHourAlways(description, hour) ==
    IF description # NoDescription
    THEN Min(Max(TIME_DESCRIPTIONS(description) + hour - 8, 0), 23)
    ELSE hour

(* parse_absolute_time: the hour after a day-segment descriptor, adjusted when
   it is at most 12 *)
AdjustedHour(description, hour) ==
    IF description # NoDescription /\ hour <= 12
    THEN Min(Max(TIME_DESCRIPTIONS(description) + hour - 8, 0), 23)
    ELSE hour

(* NaiveTime::from_hms_opt(hour, minute, 0) is Some *)
from_hms_opt(hour, minute) == hour < 24 /\ minute < 60

(* what a stage of parse returns: Ok(input) or Err, and the stage *)
StageOk(stage, time_input) ==
    [ok |-> TRUE, input |-> time_input, value |-> 0, stage |-> stage]

StageErr(stage) ==
    [ok |-> FALSE, input |-> DurationInput(0), value |-> 0, stage |-> stage]

(* parse_absolute_time(captures), called at instant n *)
parse_absolute_time(description, text, n) ==
    LET hour == AdjustedHour(description, Captures(text).hour)
        minute == Captures(text).minute
        target == DateNaive(n) + Hours(hour) + Minutes(minute)
    IN  IF hour >= 24 \/ minute >= 60 THEN StageErr("absolute")
        ELSE IF ~from_hms_opt(hour, minute) THEN StageErr("absolute")
        ELSE StageOk("absolute",
                     AbsoluteTime(IF target <= n THEN target + Days(1) ELSE target))

(* parse_daily_time(captures) *)
parse_daily_time(text) ==
    LET hour == Captures(text).hour
        minute == Captures(text).minute
    IN  IF hour >= 24 \/ minute >= 60 THEN StageErr("daily")
        ELSE IF ~from_hms_opt(hour, minute) THEN StageErr("daily")
        ELSE StageOk("daily", DailyTime(Hours(hour) + Minutes(minute)))

ValidateQuery(which, time_input) ==
    [fn |-> "validate", pc |-> "start", which |-> which, input |-> time_input]

IdiomQuery(phrase) == [fn |-> "idiom", pc |-> "start", phrase |-> phrase]

(* a clock text: the digits of its hour, a colon or none, the digits of its
   minute; after the words for "every day" (daily) or after a day-segment
   descriptor or nothing *)
ClockQuery(daily, description, hour_part, colon, minute_part) ==
    [fn |-> "clock", pc |-> "start", daily |-> daily, description |-> description,
     hour_part |-> hour_part, colon |-> colon, minute_part |-> minute_part]

ClockText(q) ==
    q.hour_part \o (IF q.colon THEN <<Colon>> ELSE <<>>) \o q.minute_part

(* validate(time_input): called on its own, or by set_shutdown_time on what
   parse returned *)
Validate ==
    /\ \/ /\ query.fn = "validate" /\ query.pc = "start" /\ query.which = "validate"
          /\ answer' = [ok |-> validate(query.input, now), input |-> query.input,
                        value |-> 0, stage |-> "validate"]
       \/ /\ query.fn = "idiom" /\ query.pc = "parsed"
          /\ answer' = [ok |-> validate(answer.input, now), input |-> answer.input,
                        value |-> 0, stage |-> "validate"]
    /\ query' = [query EXCEPT !.pc = "done"]
    /\ UNCHANGED <<now, current_task, call, clients, app, task_file>>
    /\ UNCHANGED engineVars

(* validate_time_input(input) *)
ValidateTimeInput ==
    /\ query.fn = "validate" /\ query.pc = "start"
    /\ query.which = "validate_time_input"
    /\ answer' = [ok |-> validate_time_input(query.input, now), input |-> query.input,
                  value |-> 0, stage |-> "validate_time_input"]
    /\ query' = [query EXCEPT !.pc = "done"]
    /\ UNCHANGED <<now, current_task, call, clients, app, task_file>>
    /\ UNCHANGED engineVars

(* parse(phrase): the phrase table answers *)
ParseNaturalLanguage ==
    /\ query.fn = "idiom" /\ query.pc = "start"
    /\ answer' = StageOk("natural", parse_natural_language(query.phrase, now))
    /\ query' = [query EXCEPT !.pc = "parsed"]
    /\ UNCHANGED <<now, current_task, call, clients, app, task_file>>
    /\ UNCHANGED engineVars

(* parse(text) of a clock text after the words for "every day": daily_pattern
   matches and parse returns what parse_daily_time returns *)
ParseDailyTime ==
    /\ query.fn = "clock" /\ query.pc = "start" /\ query.daily
    /\ answer' = parse_daily_time(ClockText(query))
    /\ query' = [query EXCEPT !.pc = "done"]
    /\ UNCHANGED <<now, current_task, call, clients, app, task_file>>
    /\ UNCHANGED engineVars

(* parse(text) of any other clock text: no unit follows the digits, so
   absolute_pattern is the one that matches *)
ParseAbsoluteTime ==
    /\ query.fn = "clock" /\ query.pc = "start" /\ ~query.daily
    /\ answer' = parse_absolute_time(query.description, ClockText(query), now)
    /\ query' = [query EXCEPT !.pc = "done"]
    /\ UNCHANGED <<now, current_task, call, clients, app, task_file>>
    /\ UNCHANGED engineVars

(* the instants at which the calls are made: four hours of a day, on the hour
   and one clock unit later *)
Instants == {Hours(h) + k : h \in {1, 8, 12, 21}, k \in {0, 1}}

(* spans on both sides of every limit of the two validations *)
Spans ==
    {-1, 0, 1, Second * 5, Second * MinLeadSeconds - 1, Second * MinLeadSeconds,
     Second * MinLeadSeconds + 1, Hours(MaxValidHours), Hours(MaxValidHours) + 1,
     Hours(MaxValidHours) + Second, Hours(MaxValidHours + 1) - 1,
     Hours(MaxValidHours + 1), Days(MaxFutureDays), Days(MaxFutureDays) + 1,
     Days(MaxFutureDays + 1)}

ValidatedInputs(n) ==
    {DurationInput(d) : d \in Spans}
        \cup {AbsoluteTime(n + d) : d \in Spans}
        \cup {DailyTime(Hours(8))}

HourParts ==
    UNION {[1..k -> {2, 4}] : k \in 1..3} \cup UNION {[1..k -> {0, 1, 2}] : k \in 1..2}

MinuteParts == {<<>>, <<0>>, <<0, 0>>, <<6, 0>>, <<4, 6>>}

Descriptions ==
    {NoDescription, "zaoshang", "shangwu", "zhongwu", "xiawu", "bangwan",
     "wanshang", "shenye"}

ClockQueries ==
    {ClockQuery(daily, NoDescription, h, c, m) :
        daily \in {TRUE}, h \in HourParts, c \in BOOLEAN, m \in MinuteParts}
      \cup {ClockQuery(FALSE, d, h, c, m) :
        d \in Descriptions, h \in HourParts, c \in BOOLEAN, m \in MinuteParts}

InputQueries(n) ==
    {ValidateQuery(which, i) :
        which \in {"validate", "validate_time_input"}, i \in ValidatedInputs(n)}
      \cup {IdiomQuery(e.phrase) : e \in IDIOMS}
      \cup ClockQueries

InitInput ==
    /\ now \in Instants
    /\ status = Idle
    /\ current_task = NoTask
    /\ cancel_sender = NoRun
    /\ is_paused = FALSE
    /\ start_timestamp = 0
    /\ paused_duration = 0
    /\ pause_permit = FALSE
    /\ pause_waiters = <<>>
    /\ nRuns = 0
    /\ task = [r \in Runs |-> NotSpawned]
    /\ call = [c \in Callers |-> IdleCall("ok")]
    /\ clients = {1}
    /\ events = <<>>
    /\ pub = [r \in Runs |-> NoCounts]
    /\ hist = NoPause
    /\ countdown_receiver = NoSubscriber
    /\ task_file = NoFile
    /\ app = NoApp
    /\ query \in InputQueries(now)
    /\ answer = NoAnswer

NextInput ==
    \/ Validate
    \/ ValidateTimeInput
    \/ ParseNaturalLanguage
    \/ ParseDailyTime
    \/ ParseAbsoluteTime

SpecInput == InitInput /\ [][NextInput]_vars

(* C21: the validation applied before a schedule is handed to the engine
   accepts a Duration if and only if it is longer than 10 seconds and at most
   24 hours. *)
C21_DurationWindow ==
    (/\ query.fn = "validate" /\ query.pc = "done"
     /\ query.which = "validate"
     /\ query.input.kind = "Duration") =>
        (answer.ok <=> (/\ query.input.value > Second * MinLeadSeconds
                        /\ query.input.value <= Hours(MaxValidHours)))

(* C22: validate accepts an AbsoluteTime if and only if it is strictly in the
   future and at most 365 days ahead, and every instant that a phrase of the
   phrase table produces passes the validation of set_shutdown_time. *)
C22_AbsoluteHorizon ==
    /\ (/\ query.fn = "validate" /\ query.pc = "done"
        /\ query.which = "validate"
        /\ query.input.kind = "AbsoluteTime") =>
           (answer.ok <=> (/\ query.input.value > now
                           /\ query.input.value <= now + Days(MaxFutureDays)))
    /\ (query.fn = "idiom" /\ query.pc = "done") => answer.ok

(* the hour a clock text is written with, and its minute when the text has a
   two-digit minute after a colon or after a two-digit hour *)
WrittenHour(q) == DigitsValue(q.hour_part)

WritesMinute(q) == Len(q.minute_part) = 2 /\ (q.colon \/ Len(q.hour_part) = 2)

WrittenMinute(q) == DigitsValue(q.minute_part)

(* C23: a clock text with an hour of 24 or more, or a minute of 60 or more,
   that reaches the daily or the absolute stage makes parse fail: that stage
   returns the error and no TimeInput. *)
C23_InvalidClockFails ==
    (/\ query.fn = "clock" /\ query.pc = "done"
     /\ Len(query.hour_part) <= 2
     /\ \/ WrittenHour(query) >= 24
        \/ WritesMinute(query) /\ WrittenMinute(query) >= 60) =>
        /\ ~answer.ok
        /\ answer.stage = IF query.daily THEN "daily" ELSE "absolute"

C23_Witness ==
    /\ query.fn = "clock" /\ query.pc = "done"
    /\ ~query.daily
    /\ query.description = "shenye"
    /\ query.hour_part = <<2, 4>>
    /\ query.colon
    /\ query.minute_part = <<0, 0>>
    /\ ~answer.ok

(* ---------------- the runs of the engine, one after another ---------------- *)
(* the step is a write of the status by the tick task of run r: the
   cancellation at the top of its loop, or the tick that sets Running or
   Finished *)
StatusWriteOf(r) ==
    /\ TaskStepOf(r)
    /\ task'[r].pc = "done" \/ task[r].pc = "tick_wait"

(* C24: after a successful start() of a new run, and while that run is live,
   the tick task of an earlier run does not write the status. *)
C24_OnlyNewRunWritesStatus ==
    [][\A r \in Runs : (r < nRuns /\ Live(nRuns)) => ~StatusWriteOf(r)]_vars

(* any step of the tick task of run r *)
TaskStep(r) ==
    \/ TaskCancelled(r)
    \/ TaskPaused(r)
    \/ TaskResumed(r)
    \/ TaskWaitTick(r)
    \/ TaskFinish(r)
    \/ TaskProgress(r)

(* one client that starts, pauses and resumes; the tokio runtime polls every
   spawned task that is ready to run *)
NextFair ==
    \/ Advance
    \/ \E c \in Callers, t \in StartTargets : StartCountdown(c, t)
    \/ \E c \in Callers : StartSpawn(c)
    \/ \E c \in Callers : PauseCountdown(c)
    \/ \E c \in Callers : ResumeCountdown(c)
    \/ \E r \in Runs : TaskStep(r)

SpecFair ==
    /\ Init
    /\ [][NextFair]_vars
    /\ \A r \in Runs : WF_vars(TaskStep(r))

(* the tick task of run r is the current one, not cancelled, and the engine is
   not paused *)
CurrentAndResumed(r) ==
    /\ r = nRuns
    /\ cancel_sender = r
    /\ Live(r)
    /\ ~task[r].signalled
    /\ ~is_paused

(* C25: whenever the current run is not paused (resume() was called, or
   pause() never was), its tick task gets to its tick wait, unless the run is
   paused again or cancelled first: a resume() wakes the current run's task,
   also when an earlier run's task still waits on the notification. *)
C25_ResumeWakesCurrentRun ==
    \A r \in Runs :
        [](CurrentAndResumed(r) =>
             <>(\/ task[r].pc \in {"tick_wait", "done"}
                \/ is_paused
                \/ task[r].signalled))

(* C26: while the current run is paused (an effective pause() has returned and
   no resume() followed) the run does not finish: it publishes neither
   Finished nor TaskCompleted and the status does not become Finished. *)
C26_NoFinishWhilePaused ==
    [][\A r \in Runs :
          (/\ is_paused
           /\ r = nRuns
           /\ cancel_sender = r
           /\ ~task[r].signalled) =>
              /\ pub'[r].finished = pub[r].finished
              /\ pub'[r].task_completed = pub[r].task_completed
              /\ status'.kind = "Finished" => status.kind = "Finished"]_vars

(* C27: whenever a tick task is live and has not been sent a cancel signal,
   the cancel handle stored in the manager is the sender of that task's own
   channel, under every interleaving of start() and cancel() calls. *)
C27_HandleOfLiveRun ==
    \A r \in Runs : (Live(r) /\ ~task[r].signalled) => cancel_sender = r

(* C28: once the status is Finished it stays Finished until start() or reset()
   is called (reset leaves Idle); a cancel() after the run has finished does
   not move it to Cancelled.  A report of an error is left aside. *)
C28_FinishedUntilStart ==
    [][(status.kind = "Finished" /\ status'.kind # "Finished") =>
          \/ StartBegins
          \/ status'.kind \in {"Idle", "Error"}]_vars

(* C29: at a tick of a run that was not cancelled, the status becomes Finished
   if and only if (target + total paused) - now <= 0 at the resolution of the
   clock; with time left, however little, it becomes Running{remaining} and
   Finished is not published. *)
C29_FinishAtDeadline ==
    [][\A r \in Runs :
          (/\ TaskStepOf(r)
           /\ task[r].pc = "tick_wait"
           /\ ~task[r].signalled) =>
              IF Remaining(r) <= 0
              THEN status'.kind = "Finished"
              ELSE /\ status' = Running(Remaining(r))
                   /\ pub'[r].finished = pub[r].finished]_vars

(* the percent of the run of r that has elapsed: from the start instant that
   start() recorded to now, in the span from that instant to the shifted
   target *)
ElapsedPercent(r) ==
    calculate_progress(start_timestamp, task[r].target_time + paused_duration, now)

(* C30: every Progress update of the current run carries
   clamp(100 x elapsed / total, 0, 100), elapsed counted from the start
   instant recorded by start() and total from that instant to the
   pause-shifted target. *)
C30_ProgressPercent ==
    [][\A r \in Runs :
          (/\ TaskStepOf(r)
           /\ r = nRuns
           /\ ~task[r].signalled
           /\ task[r].pc = "tick_wait"
           /\ status'.kind = "Running") =>
              LET sent == events'[Len(events')]
              IN  /\ sent.kind = "Progress"
                  /\ sent.run = r
                  /\ sent.progress = ElapsedPercent(r)]_vars

(* ---------------- the runs of the engine and their descriptors ---------------- *)

(* C31: the pause accumulator is 0 when start() begins a run and afterwards
   grows only by the pause spans of that run: no tick task of an earlier run
   adds a span to it, so the effective deadline of the run never includes a
   span of an earlier run and never decreases during the run. *)
C31_PauseAccumulatorOfThisRun ==
    [][/\ \A r \in Runs :
             (TaskStepOf(r) /\ r # nRuns) => paused_duration' = paused_duration
       /\ nRuns' # nRuns => paused_duration' = 0
       /\ nRuns' = nRuns => paused_duration' >= paused_duration]_vars

(* C32: a TaskCompleted update is sent by the tick task of a run only if that
   run's start() was given a descriptor, and it carries that descriptor. *)
C32_CompletedCarriesOwnDescriptor ==
    [][\A r \in Runs :
          pub'[r].task_completed # pub[r].task_completed =>
             LET sent == events'[Len(events')]
             IN  /\ task[r].task_arg # NoTask
                 /\ sent.kind = "TaskCompleted"
                 /\ sent.run = r
                 /\ sent.task_info = task[r].task_arg]_vars

(* C33: a start_countdown_from_task() that returns an error leaves the
   descriptor stored in the engine as it was. *)
C33_FailedStartKeepsDescriptor ==
    [][\A c \in clients :
          (call[c].pc = "idle" /\ call' # call /\ call'[c] = IdleCall("err")) =>
             current_task' = current_task]_vars

(* C34: a cancel signal belongs to one run: a signal is queued for the tick
   task of run r only by a call made while the handle of r is installed, that
   is after the start() of r, and the task of r ends as Cancelled only after
   such a signal; a cancel() that returned before the start() of r never
   cancels r. *)
C34_SignalOfOneRun ==
    [][\A r \in Runs :
          /\ (task'[r].rx /\ ~task[r].rx) => (cancel_sender = r /\ Live(r))
          /\ pub'[r].cancelled # pub[r].cancelled => task[r].signalled]_vars

(* the first run was cancelled, the second one started after it ran to its
   end without a cancel signal *)
C34_Witness ==
    /\ nRuns = 2
    /\ pub[1].cancelled = 1
    /\ task[2].pc = "done"
    /\ ~task[2].signalled
    /\ pub[2] = [NoCounts EXCEPT !.finished = 1]

(* ---------------- the task record and the schedule ---------------- *)

(* the application with its cancel requests: recovery at startup, schedules
   set from an input (the record is saved), cancel requests from the UI and
   through cancel_shutdown, and the tick tasks *)
NextStore ==
    \/ Advance
    \/ AppLoad
    \/ AppStart
    \/ \E time_input \in TimeInputs, task_type \in {"Once", "Daily"} :
          start_countdown_from_input(time_input, task_type)
    \/ HandleCancelCountdown
    \/ cancel_shutdown
    \/ \E c \in Callers : StartSpawn(c)
    \/ \E r \in Runs : TaskCancelled(r)
    \/ \E r \in Runs : TaskWaitTick(r)
    \/ \E r \in Runs : TaskFinish(r)
    \/ \E r \in Runs : TaskProgress(r)

SpecStore == InitApp /\ [][NextStore]_vars

(* the step is the application handling a cancel request *)
CancelHandled ==
    /\ call[1].pc = "idle"
    /\ call' # call
    /\ call'[1].ret \in {"cancel1", "cancel2"}

(* C35: the task record exists only while a schedule is pending: once the
   application has handled a cancel request, and once a run has reached
   Finished, the task file holds no record. *)
C35_RecordOnlyWhilePending ==
    [][/\ CancelHandled => task_file'.kind = "absent"
       /\ (\E r \in Runs : pub'[r].finished # pub[r].finished) =>
             task_file'.kind = "absent"]_vars

(* C36: a load of a record that cannot be decoded keeps a backup copy of the
   record and returns absent (no descriptor and no error), for the
   synchronous and for the asynchronous load. *)
C36_CorruptRecordIsAbsent ==
    (query.fn = "load" /\ query.pc = "loaded" /\ task_file.kind = "corrupt") =>
        /\ answer.ok
        /\ ~answer.some
        /\ answer.backup

(* ---------------- the texts of TimeParser: numerals and amounts ---------------- *)
(* a text is a sequence of characters; the Chinese numeral characters are
   written in pinyin (ling yi er liang san si wu liu qi ba jiu, and shi for
   ten), the decimal digits as themselves *)
DecimalDigits == <<"0", "1", "2", "3", "4", "5", "6", "7", "8", "9">>

(* the characters for one to nine *)
UnitNumerals == <<"yi", "er", "san", "si", "wu", "liu", "qi", "ba", "jiu">>

(* u32::to_string of a number below 100 *)
to_string(number) ==
    IF number < 10
    THEN <<DecimalDigits[number + 1]>>
    ELSE <<DecimalDigits[(number \div 10) + 1], DecimalDigits[(number % 10) + 1]>>

RECURSIVE DecimalValue(_)
(* str::parse of a run of decimal digits that fits the integer *)
DecimalValue(text) ==
    IF text = <<>> THEN 0
    ELSE 10 * DecimalValue(SubSeq(text, 1, Len(text) - 1))
            + (CHOOSE d \in 0..9 : DecimalDigits[d + 1] = text[Len(text)])

NumeralEntry(chinese, number) == [chinese |-> chinese, number |-> number]

(* init_chinese_numbers: the entries in the order they are inserted: 0..9 with
   both words for 2, 10, 11..19, 20, 21..29, 30, 40, 50, 60 *)
init_chinese_numbers ==
    <<NumeralEntry(<<"ling">>, 0), NumeralEntry(<<"yi">>, 1),
      NumeralEntry(<<"er">>, 2), NumeralEntry(<<"liang">>, 2)>>
      \o [i \in 1..7 |-> NumeralEntry(<<UnitNumerals[i + 2]>>, i + 2)]
      \o <<NumeralEntry(<<"shi">>, 10)>>
      \o [i \in 1..9 |-> NumeralEntry(<<"shi", UnitNumerals[i]>>, 10 + i)]
      \o <<NumeralEntry(<<"er", "shi">>, 20)>>
      \o [i \in 1..9 |-> NumeralEntry(<<"er", "shi", UnitNumerals[i]>>, 20 + i)]
      \o [i \in 1..4 |-> NumeralEntry(<<UnitNumerals[i + 2], "shi">>, 10 * (i + 2))]

(* the orders in which a HashMap may iterate over its entries: the order
   depends on the keys of the instance's hasher, chosen at random when the map
   is created; two of the possible orders *)
IterationOrders == {"as inserted", "reversed"}

(* self.chinese_numbers.iter().collect() of an instance that iterates in
   the given order *)
iter(order) ==
    IF order = "as inserted"
    THEN init_chinese_numbers
    ELSE [i \in 1..Len(init_chinese_numbers) |->
             init_chinese_numbers[Len(init_chinese_numbers) + 1 - i]]

(* sort_by(|a, b| b.0.len().cmp(&a.0.len())): a stable sort, longest key
   first; keys of one length stay in the order of the iteration *)
sort_by(entries) ==
    LET Long(e) == Len(e.chinese) = 3
        Middle(e) == Len(e.chinese) = 2
        Short(e) == Len(e.chinese) = 1
    IN  SelectSeq(entries, Long) \o SelectSeq(entries, Middle)
            \o SelectSeq(entries, Short)

RECURSIVE replace(_, _, _)
(* str::replace: every non-overlapping match, from the left *)
replace(text, from, to) ==
    IF Len(text) < Len(from) THEN text
    ELSE IF SubSeq(text, 1, Len(from)) = from
         THEN to \o replace(SubSeq(text, Len(from) + 1, Len(text)), from, to)
         ELSE <<Head(text)>> \o replace(Tail(text), from, to)

RECURSIVE ReplaceAll(_, _)
(* the loop of preprocess_chinese_numbers over the sorted entries *)
ReplaceAll(result, sorted_numbers) ==
    IF sorted_numbers = <<>> THEN result
    ELSE ReplaceAll(replace(result, Head(sorted_numbers).chinese,
                            to_string(Head(sorted_numbers).number)),
                    Tail(sorted_numbers))

(* preprocess_chinese_numbers(input) of an instance whose table iterates in
   the given order *)
preprocess_chinese_numbers(input, order) == ReplaceAll(input, sort_by(iter(order)))

(* the spelled-out numeral for n in 0..99: ling, yi..jiu, shi, shi-yi..,
   er-shi, er-shi-yi.., san-shi.. *)
Numeral(n) ==
    IF n = 0 THEN <<"ling">>
    ELSE IF n < 10 THEN <<UnitNumerals[n]>>
    ELSE (IF n < 20 THEN <<"shi">> ELSE <<UnitNumerals[n \div 10], "shi">>)
            \o (IF n % 10 = 0 THEN <<>> ELSE <<UnitNumerals[n % 10]>>)

(* the largest numeral of the vocabulary *)
MaxNumeral == 60

(* parse("<numeral><unit>") called twice: by a parser whose table iterates in
   the first order, then by one whose table iterates in the second *)
SpelledQuery(n, unit, orders) ==
    [fn |-> "spelled", pc |-> "start", n |-> n, unit |-> unit, orders |-> orders]

(* parse(input) of a spelled numeral followed by a unit: the numerals are
   normalized, no phrase and no daily pattern matches, duration_pattern
   captures the digits before the unit; text keeps the normalized numeral *)
ParseSpelled ==
    /\ query.fn = "spelled"
    /\ query.pc \in {"start", "parsed"}
    /\ LET order == IF query.pc = "start" THEN query.orders[1] ELSE query.orders[2]
           processed_input == preprocess_chinese_numbers(Numeral(query.n), order)
           parsed == parse_duration(DecimalValue(processed_input), query.unit)
           result == [ok |-> parsed.ok, input |-> parsed.input,
                      text |-> processed_input]
       IN  answer' = IF query.pc = "start"
                     THEN [first |-> result, second |-> result]
                     ELSE [answer EXCEPT !.second = result]
    /\ query' = [query EXCEPT !.pc = IF query.pc = "start" THEN "parsed" ELSE "done"]
    /\ UNCHANGED <<now, current_task, call, clients, app, task_file>>
    /\ UNCHANGED engineVars

(* a 64-bit integer: four limbs of 16 bits, the lowest first *)
Limb == 2 ^ 16

RECURSIVE MulAdd(_, _, _)
(* limbs * m + carry, exact: one limb longer than limbs *)
MulAdd(limbs, m, carry) ==
    IF limbs = <<>> THEN <<carry>>
    ELSE LET p == Head(limbs) * m + carry
         IN  <<p % Limb>> \o MulAdd(Tail(limbs), m, p \div Limb)

(* the exact value does not fit an i64 *)
Overflows(wide) == wide[5] # 0 \/ wide[4] >= Limb \div 2

RECURSIVE parse_i64(_)
(* str::parse::<i64> of a run of digits: every step is checked, a value above
   i64::MAX is an error *)
parse_i64(number_str) ==
    IF number_str = <<>>
    THEN [overflow |-> FALSE, limbs |-> <<0, 0, 0, 0>>]
    ELSE LET front == parse_i64(SubSeq(number_str, 1, Len(number_str) - 1))
             wide == MulAdd(front.limbs, 10, number_str[Len(number_str)])
         IN  IF front.overflow \/ Overflows(wide)
             THEN [overflow |-> TRUE, limbs |-> <<0, 0, 0, 0>>]
             ELSE [overflow |-> FALSE, limbs |-> SubSeq(wide, 1, 4)]

(* the i64 is negative: its sign bit is set *)
Negative(limbs) == limbs[4] >= Limb \div 2

(* the absolute value of the i64 *)
Magnitude(limbs) ==
    IF Negative(limbs)
    THEN SubSeq(MulAdd([i \in 1..4 |-> Limb - 1 - limbs[i]], 1, 1), 1, 4)
    ELSE limbs

LimbsLess(a, b) ==
    \E i \in 1..Len(a) : a[i] < b[i] /\ \A j \in (i + 1)..Len(a) : a[j] = b[j]

(* chrono: the most seconds a Duration holds, i64::MAX milliseconds *)
MaxDurationSeconds == parse_i64(<<9, 2, 2, 3, 3, 7, 2, 0, 3, 6, 8, 5, 4, 7, 7, 5>>).limbs

(* the i64 is at least 0 and below 2^28: every larger number of seconds is
   more than 365 days *)
Small(limbs) == limbs[4] = 0 /\ limbs[3] = 0 /\ limbs[2] < 2 ^ 12

SmallValue(limbs) == limbs[2] * Limb + limbs[1]

(* the call panics and the process is aborted *)
Aborted == [ok |-> FALSE, input |-> DurationInput(0), abort |-> TRUE]

(* the call returns Err *)
Rejected == [ok |-> FALSE, input |-> DurationInput(0), abort |-> FALSE]

(* parse_duration on the captured digits and unit, in 64 bits: the digits are
   parsed to an i64; `number * seconds` panics on overflow in a build with
   overflow checks and wraps in one without; Duration::seconds panics for a
   number of seconds no Duration holds; then the two range checks *)
parse_duration_i64(number_str, unit, overflow_checks) ==
    LET number == parse_i64(number_str)
        seconds == TIME_UNITS(CapturedUnit(unit))
        wide == MulAdd(number.limbs, seconds, 0)
        total_seconds == SubSeq(wide, 1, 4)
    IN  IF number.overflow THEN Rejected
        ELSE IF Overflows(wide) /\ overflow_checks THEN Aborted
        ELSE IF LimbsLess(MaxDurationSeconds, Magnitude(total_seconds)) THEN Aborted
        ELSE IF Negative(total_seconds) \/ ~Small(total_seconds) THEN Rejected
        ELSE LET checked == checked_duration(SmallValue(total_seconds))
             IN  [ok |-> checked.ok, input |-> checked.input, abort |-> FALSE]

(* parse("<digits><unit>") in a build with or without overflow checks *)
DigitsQuery(number_str, unit, overflow_checks) ==
    [fn |-> "digits", pc |-> "start", number_str |-> number_str, unit |-> unit,
     overflow_checks |-> overflow_checks]

(* parse(input) of digits followed by a unit: there is no numeral to
   normalize, no phrase and no daily pattern matches, duration_pattern
   captures the digits and the unit *)
ParseDigits ==
    /\ query.fn = "digits" /\ query.pc = "start"
    /\ answer' = parse_duration_i64(query.number_str, query.unit,
                                    query.overflow_checks)
    /\ query' = [query EXCEPT !.pc = "done"]
    /\ UNCHANGED <<now, current_task, call, clients, app, task_file>>
    /\ UNCHANGED engineVars

(* amounts: small ones, 365 days of seconds and of hours and one more,
   i64::MAX / 1000 and one more, 2^60 + 1, i64::MAX and one more, and 21
   digits *)
Amounts ==
    {<<0>>, <<5>>, <<9, 0>>, <<8, 7, 6, 0>>, <<8, 7, 8, 5>>,
     <<3, 1, 5, 3, 6, 0, 0, 0>>, <<3, 1, 6, 2, 2, 4, 0, 0>>,
     <<9, 2, 2, 3, 3, 7, 2, 0, 3, 6, 8, 5, 4, 7, 7, 5>>,
     <<9, 2, 2, 3, 3, 7, 2, 0, 3, 6, 8, 5, 4, 7, 7, 6>>,
     <<1, 1, 5, 2, 9, 2, 1, 5, 0, 4, 6, 0, 6, 8, 4, 6, 9, 7, 7>>,
     <<9, 2, 2, 3, 3, 7, 2, 0, 3, 6, 8, 5, 4, 7, 7, 5, 8, 0, 7>>,
     <<9, 2, 2, 3, 3, 7, 2, 0, 3, 6, 8, 5, 4, 7, 7, 5, 8, 0, 8>>,
     <<1, 0, 0, 0, 0, 0, 0, 0, 0, 0, 0, 0, 0, 0, 0, 0, 0, 0, 0, 0, 0>>}

DigitsQueries ==
    {DigitsQuery(number_str, unit, overflow_checks) :
        number_str \in Amounts, unit \in {"miao", "fenzhong", "xiaoshi"},
        overflow_checks \in BOOLEAN}

SpelledQueries ==
    {SpelledQuery(n, unit, orders) :
        n \in 0..MaxNumeral, unit \in {"fenzhong", "xiaoshi"},
        orders \in IterationOrders \X IterationOrders}

InitText ==
    /\ now = 1
    /\ status = Idle
    /\ current_task = NoTask
    /\ cancel_sender = NoRun
    /\ is_paused = FALSE
    /\ start_timestamp = 0
    /\ paused_duration = 0
    /\ pause_permit = FALSE
    /\ pause_waiters = <<>>
    /\ nRuns = 0
    /\ task = [r \in Runs |-> NotSpawned]
    /\ call = [c \in Callers |-> IdleCall("ok")]
    /\ clients = {1}
    /\ events = <<>>
    /\ pub = [r \in Runs |-> NoCounts]
    /\ hist = NoPause
    /\ countdown_receiver = NoSubscriber
    /\ task_file = NoFile
    /\ app = NoApp
    /\ query \in SpelledQueries \cup DigitsQueries
    /\ answer = NoAnswer

NextText ==
    \/ ParseSpelled
    \/ ParseDigits

SpecText == InitText /\ [][NextText]_vars

(* C37: for every n from 0 to 60 numeral normalization turns the spelled-out
   numeral for n into the decimal digits of n. *)
C37_NumeralsNormalized ==
    (query.fn = "spelled" /\ query.pc \in {"parsed", "done"}) =>
        answer.first.text = to_string(query.n)

(* C38: parse is deterministic: two calls with the same input, by the same or
   by different parsers, return the same result, whatever the order in which
   the numeral table of each parser iterates. *)
C38_ParseDeterministic ==
    (query.fn = "spelled" /\ query.pc = "done") => answer.first = answer.second

(* a number below 2^28 as an exact five-limb value *)
Wide(n) == <<n % Limb, n \div Limb, 0, 0, 0>>

(* C40: parse is total on duration phrases: for every amount written in
   digits it returns a Duration of exactly amount x factor seconds or an
   error; it never aborts, whatever the size of the amount, and a product above
   365 days is an error. *)
C40_DurationTotal ==
    (query.fn = "digits" /\ query.pc = "done") =>
        /\ ~answer.abort
        /\ answer.ok =>
              /\ ~parse_i64(query.number_str).overflow
              /\ Wide(NumSeconds(answer.input.value)) =
                    MulAdd(parse_i64(query.number_str).limbs, UnitFactor(query.unit), 0)
              /\ NumSeconds(answer.input.value) <= MaxDurationDays * SecondsPerDay

(* ---------------- the hour after a day-segment descriptor ---------------- *)
(* the hour of the day of an instant *)
HourOf(t) == NumHours(t - DateNaive(t))

(* the anchors of the seven descriptors: early morning, morning, noon,
   afternoon, dusk, evening, late night *)
Anchor(description) ==
    CASE description = "zaoshang" -> 8
      [] description = "shangwu" -> 10
      [] description = "zhongwu" -> 12
      [] description = "xiawu" -> 14
      [] description = "bangwan" -> 18
      [] description = "wanshang" -> 20
      [] description = "shenye" -> 23

(* the hour the absolute stage is to produce for a clock text written with
   hour h *)
ExpectedHour(description, h) ==
    IF description # NoDescription /\ h <= 12
    THEN Clamp(Anchor(description) + h - 8, 0, 23)
    ELSE h

(* C39: in the absolute stage an hour h of at most 12 after a descriptor
   becomes clamp(anchor + h - 8, 0, 23); an hour above 12, or one without a
   descriptor, stays h; the hour of a returned instant is always in 0..23, and
   the stage fails only for an hour of 24 or more or a minute of 60 or more.
   Stated of the texts whose hour is captured as written: one or two digits,
   then a colon, the end of the text or (after two digits) the minute. *)
C39_DescriptorHour ==
    (/\ query.fn = "clock" /\ query.pc = "done"
     /\ ~query.daily
     /\ Len(query.hour_part) <= 2
     /\ query.colon \/ query.minute_part = <<>> \/ Len(query.hour_part) = 2) =>
        LET expected == ExpectedHour(query.description, WrittenHour(query))
        IN  IF answer.ok
            THEN /\ answer.input.kind = "AbsoluteTime"
                 /\ HourOf(answer.input.value) = expected
                 /\ expected \in 0..23
            ELSE \/ expected >= 24
                 \/ WritesMinute(query) /\ WrittenMinute(query) >= 60

(* "late night 12:00": the hour 12 is clamped to 23 *)
C39_Witness ==
    /\ query.fn = "clock" /\ query.pc = "done"
    /\ ~query.daily
    /\ query.description = "shenye"
    /\ query.hour_part = <<1, 2>>
    /\ query.colon
    /\ query.minute_part = <<0, 0>>
    /\ answer.ok
    /\ HourOf(answer.input.value) = 23

====
